---- MODULE Spec2Model ----
(***************************************************************************)
(* A model of app.py, the laptop price dashboard: load_data,               *)
(* preprocess_data, the filters of main(), identify_cheapest_platforms     *)
(* and create_price_trend_chart.                                           *)
(*                                                                         *)
(* Text cells of the CSV file are sequences of one-character strings.      *)
(* A float64 cell is NaN or Num(n), n an integer count of 10^-FracDigits   *)
(* rupees, so that 1000.5 is an exact value of the model.  The key columns *)
(* brand, platform and city hold plain strings; the column 'model' is only *)
(* passed through to the hover text and the data table and is left out.    *)
(***************************************************************************)
EXTENDS Integers, Sequences, FiniteSets, TLC

VARIABLES file, cache, df, sel, filtered_df, metrics, cheapest_platforms, trend,
          calls, notices, pc

vars == <<file, cache, df, sel, filtered_df, metrics, cheapest_platforms, trend,
          calls, notices, pc>>

(***************************************************************************)
(* Bounds of the model.                                                    *)
(***************************************************************************)
\* Rows of a source file of the dashboard and of the preprocessing.
MaxRows == 2
\* Rows of a source file of the ranking and the trend view.
MaxViewRows == 4
\* Length of the price strings that are enumerated exhaustively.
MaxLen == 3
\* Decimal places a number of the model carries.
FracDigits == 3

Unit == 10 ^ FracDigits

(***************************************************************************)
(* float64 cells.                                                          *)
(***************************************************************************)
NaN == [nan |-> TRUE, v |-> 0]
Num(n) == [nan |-> FALSE, v |-> n]
IsNaN(x) == x.nan
Val(x) == x.v

\* A cell of an object column read from the file: its text, or missing.
Missing == [missing |-> TRUE, text |-> <<>>]
Text(s) == [missing |-> FALSE, text |-> s]

\* A cell of a datetime64 column: a date, or NaT.
NaT == [nat |-> TRUE, y |-> 0, m |-> 0, d |-> 0]
Date(y, m, d) == [nat |-> FALSE, y |-> y, m |-> m, d |-> d]

Rupee == "₹"
Comma == ","
DigitChars == <<"0", "1", "2", "3", "4", "5", "6", "7", "8", "9">>
Digits == {DigitChars[i] : i \in 1..10}
DigitVal(c) == (CHOOSE i \in 1..10 : DigitChars[i] = c) - 1

\* The sum of f over the indices S.
RECURSIVE SumOver(_, _)
SumOver(f, S) ==
    IF S = {} THEN 0
    ELSE LET i == CHOOSE j \in S : TRUE IN f[i] + SumOver(f, S \ {i})

SeqsUpTo(S, n) == UNION {[1..k -> S] : k \in 0..n}

\* Series.str.replace('[₹,]', '', regex=True) on one cell.
StrReplace(s) == SelectSeq(s, LAMBDA c : c \notin {Rupee, Comma})

\* Series.astype(str) on one cell of an object column: a missing cell
\* becomes the text "nan".
AsTypeStr(c) == IF c.missing THEN <<"n", "a", "n">> ELSE c.text

\* The scanner of pandas' string-to-float conversion: the index of the first
\* position at or after i that holds no character of S.
RECURSIVE SkipWhile(_, _, _)
SkipWhile(s, i, S) ==
    IF i <= Len(s) /\ s[i] \in S THEN SkipWhile(s, i + 1, S) ELSE i

\* The value of the digits s[i..j-1], read left to right.
RECURSIVE DigitsValue(_, _, _, _)
DigitsValue(s, i, j, acc) ==
    IF i >= j THEN acc ELSE DigitsValue(s, i + 1, j, 10 * acc + DigitVal(s[i]))

\* pd.to_numeric(text, errors='coerce') on one string: blanks, an optional
\* sign, digits, an optional point and digits, blanks; at least one digit
\* and nothing else, or the result is NaN.  (Exponents and the words inf and
\* infinity are outside the alphabet of the modelled files.)
ToNumeric(s) ==
    LET a  == SkipWhile(s, 1, {" "})
        b  == IF a <= Len(s) /\ s[a] \in {"-", "+"} THEN a + 1 ELSE a
        neg == a <= Len(s) /\ s[a] = "-"
        e  == SkipWhile(s, b, Digits)
        f  == IF e <= Len(s) /\ s[e] = "." THEN e + 1 ELSE e
        g  == SkipWhile(s, f, Digits)
        h  == SkipWhile(s, g, {" "})
        nd == (e - b) + (g - f)
        ip == DigitsValue(s, b, e, 0)
        fp == DigitsValue(s, f, g, 0) * 10 ^ (FracDigits - (g - f))
        v  == ip * Unit + fp
    IN  IF nd = 0 \/ h <= Len(s) \/ (g - f) > FracDigits THEN NaN
        ELSE Num(IF neg THEN 0 - v ELSE v)

\* pd.to_numeric on one cell of an object column: a missing cell stays NaN.
ToNumericCell(c) == IF c.missing THEN NaN ELSE ToNumeric(c.text)

\* pd.to_datetime(text, errors='coerce') on one string, for the ISO form
\* YYYY-MM-DD the modelled files use; anything else is NaT.
ToDatetime(c) ==
    IF /\ Len(c) = 10
            /\ c[5] = "-" /\ c[8] = "-"
            /\ \A i \in {1, 2, 3, 4, 6, 7, 9, 10} : c[i] \in Digits
         THEN LET y == DigitsValue(c, 1, 5, 0)
                  m == DigitsValue(c, 6, 8, 0)
                  d == DigitsValue(c, 9, 11, 0)
              IN  IF m \in 1..12 /\ d \in 1..31 THEN Date(y, m, d) ELSE NaT
    ELSE NaT

ToDatetimeCell(c) == IF c.missing THEN NaT ELSE ToDatetime(c.text)

(***************************************************************************)
(* Tables: the named columns and the rows in order.                        *)
(***************************************************************************)
Table(cols, rows) == [columns |-> cols, rows |-> rows]

\* pd.DataFrame(): no columns, no rows.
EmptyFrame == Table({}, <<>>)

\* DataFrame.empty: an axis of length 0.
IsEmpty(t) == t.columns = {} \/ Len(t.rows) = 0

MapRows(t, F(_)) == Table(t.columns, [i \in 1..Len(t.rows) |-> F(t.rows[i])])
SelectRows(t, P(_)) == Table(t.columns, SelectSeq(t.rows, P))

\* The source file: missing, zero bytes long, or a header and data rows.
NoFile == [state |-> "missing"]
BlankFile == [state |-> "blank"]
CsvFile(cols, rows) == [state |-> "present", columns |-> cols, rows |-> rows]

\* The columns whose cells are text in the file; brand, platform and city
\* are kept as plain strings.
TextColumns == {"price", "rating", "date"}

ReadCell(s) == IF Len(s) = 0 THEN Missing ELSE Text(s)

\* pd.read_csv on a file with a header: a cell of no characters is missing.
ReadCsv(f) ==
    Table(f.columns,
          [i \in 1..Len(f.rows) |->
              [k \in DOMAIN f.rows[i] |->
                  IF k \in TextColumns THEN ReadCell(f.rows[i][k])
                  ELSE f.rows[i][k]]])

\* dropna() without the subset: a row with any missing number is dropped.
DropNaAny(t) == SelectRows(t, LAMBDA r : ~IsNaN(r.price) /\ ~IsNaN(r.rating))

\* df.dropna(subset=['price'])
DropNaPrice(t) == SelectRows(t, LAMBDA r : ~IsNaN(r.price))

PreprocessRow(r) ==
    LET r1 == [r EXCEPT !.price = ToNumeric(StrReplace(AsTypeStr(r.price)))]
    IN  [r1 EXCEPT !.rating = ToNumericCell(r1.rating)]

ConvertDate(r) == [r EXCEPT !.date = ToDatetimeCell(r.date)]

\* preprocess_data(df)
preprocess_data(t) ==
    IF IsEmpty(t) THEN t
    ELSE LET kept == DropNaPrice(MapRows(t, PreprocessRow))
         IN  IF "date" \in kept.columns THEN MapRows(kept, ConvertDate)
             ELSE kept

(***************************************************************************)
(* The state before a run of the script.                                   *)
(***************************************************************************)
NoCache == [cached |-> FALSE]
NoTable == [table |-> FALSE]
NoSel == [chosen |-> FALSE]
NoMetrics == [shown |-> FALSE]

Fresh(f) ==
    /\ file = f
    /\ cache = NoCache
    /\ df = NoTable
    /\ sel = NoSel
    /\ filtered_df = NoTable
    /\ metrics = NoMetrics
    /\ cheapest_platforms = <<>>
    /\ trend = <<>>
    /\ calls = <<>>
    /\ notices = <<>>
    /\ pc = "start"

\* load_data() behind st.cache_data and the check of main() after it: a hit
\* hands out a copy of the stored value and replays the message stored with
\* it; an exception other than FileNotFoundError leaves load_data.
LoadStep ==
    /\ pc = "start"
    /\ IF cache # NoCache
       THEN /\ df' = cache.value
            /\ notices' = cache.notices
            /\ cache' = cache
            /\ pc' = IF IsEmpty(cache.value) THEN "stopped" ELSE "loaded"
       ELSE IF file.state = "missing"
       THEN /\ df' = EmptyFrame
            /\ notices' = <<"error: Dataset not found">>
            /\ cache' = [cached |-> TRUE, value |-> EmptyFrame,
                         notices |-> <<"error: Dataset not found">>]
            /\ pc' = "stopped"
       ELSE IF file.state = "blank"
       THEN /\ df' = NoTable
            /\ notices' = <<>>
            /\ cache' = cache
            /\ pc' = "crashed"
       ELSE /\ df' = ReadCsv(file)
            /\ notices' = <<>>
            /\ cache' = [cached |-> TRUE, value |-> ReadCsv(file),
                         notices |-> <<>>]
            /\ pc' = IF IsEmpty(ReadCsv(file)) THEN "stopped" ELSE "loaded"
    /\ UNCHANGED <<file, sel, filtered_df, metrics, cheapest_platforms, trend, calls>>

\* preprocess_data on the cached object itself (a cache that hands out a
\* reference): the column assignments reach the stored table.
PreprocessInPlaceStep ==
    /\ pc = "loaded"
    /\ df' = preprocess_data(df)
    /\ cache' = [cache EXCEPT !.value = MapRows(df, PreprocessRow)]
    /\ pc' = "preprocessed"
    /\ UNCHANGED <<file, sel, filtered_df, metrics, cheapest_platforms, trend, calls,
                   notices>>

\* df = preprocess_data(df)
PreprocessStep ==
    /\ pc = "loaded"
    /\ df' = preprocess_data(df)
    /\ pc' = "preprocessed"
    /\ UNCHANGED <<file, cache, sel, filtered_df, metrics, cheapest_platforms, trend,
                   calls, notices>>

(***************************************************************************)
(* The sidebar widgets of main().                                          *)
(***************************************************************************)
All == "All"
Bhopal == "Bhopal"
\* step=1000 of the price slider.
SliderStep == 1000

\* Series.unique(): the values in order of first appearance.
RECURSIVE Unique(_)
Unique(s) ==
    IF s = <<>> THEN <<>>
    ELSE LET u == Unique(SubSeq(s, 1, Len(s) - 1))
             x == s[Len(s)]
         IN  IF \E i \in 1..Len(u) : u[i] = x THEN u ELSE Append(u, x)

Range(s) == {s[i] : i \in 1..Len(s)}
Column(t, k) == [i \in 1..Len(t.rows) |-> t.rows[i][k]]

\* ['All'] + list(df[k].unique())
Options(t, k) == <<All>> \o Unique(Column(t, k))

Prices(t) == {Val(t.rows[i].price) : i \in 1..Len(t.rows)}
PriceMin(t) == CHOOSE v \in Prices(t) : \A w \in Prices(t) : v <= w
PriceMax(t) == CHOOSE v \in Prices(t) : \A w \in Prices(t) : v >= w

\* int(x) of a float: the fraction is cut off, towards zero.
IntOf(v) == IF v >= 0 THEN v \div Unit ELSE 0 - ((0 - v) \div Unit)

min_price(t) == IntOf(PriceMin(t))
max_price(t) == IntOf(PriceMax(t))

\* The positions of the slider: from min_value in steps, and max_value.
SliderValues(lo, hi) ==
    {lo + k * SliderStep : k \in 0..((hi - lo) \div SliderStep)} \cup {hi}

\* The first run's widget values: default=['All'], value=(min_price,
\* max_price), and the city 'Bhopal' when the data has it.
Defaults(t) ==
    [selected_brands |-> {All},
     price_range |-> <<min_price(t), max_price(t)>>,
     selected_platforms |-> {All},
     selected_city |-> IF Bhopal \in Range(Options(t, "city")) THEN Bhopal ELSE All]

\* The widgets of one run: the options and the price range are computed from
\* df, and int() of the NaN that min() of no rows gives raises ValueError.
WidgetsStep ==
    /\ pc = "preprocessed"
    /\ IF Len(df.rows) = 0
       THEN /\ pc' = "crashed"
            /\ sel' = sel
       ELSE /\ pc' = "widgets"
            /\ sel' = IF sel = NoSel THEN Defaults(df) ELSE sel
    /\ UNCHANGED <<file, cache, df, filtered_df, metrics, cheapest_platforms, trend,
                   calls, notices>>

(***************************************************************************)
(* The filters of main().                                                  *)
(***************************************************************************)
\* The brand test with == ['All'] in place of 'All' not in.
BrandFilterExact(t, brands) ==
    IF brands = {All} THEN t
    ELSE SelectRows(t, LAMBDA r : r.brand \in brands)

BrandFilter(t, brands) ==
    IF All \in brands THEN t
    ELSE SelectRows(t, LAMBDA r : r.brand \in brands)

PriceFilter(t, range) ==
    SelectRows(t, LAMBDA r : /\ Val(r.price) >= range[1] * Unit
                             /\ Val(r.price) <= range[2] * Unit)

PlatformFilter(t, platforms) ==
    IF All \in platforms THEN t
    ELSE SelectRows(t, LAMBDA r : r.platform \in platforms)

\* A city filter that keeps the first matching row only.
CityFilterFirst(t, city) ==
    IF city # All
    THEN LET m == SelectRows(t, LAMBDA r : r.city = city)
         IN  Table(m.columns, SubSeq(m.rows, 1, 1))
    ELSE t

CityFilter(t, city) ==
    IF city # All THEN SelectRows(t, LAMBDA r : r.city = city) ELSE t

\* filtered_df = df.copy(), and the brand filter.
BrandStep ==
    /\ pc = "widgets"
    /\ filtered_df' = BrandFilter(df, sel.selected_brands)
    /\ pc' = "brand"
    /\ UNCHANGED <<file, cache, df, sel, metrics, cheapest_platforms, trend, calls,
                   notices>>

PriceStep ==
    /\ pc = "brand"
    /\ filtered_df' = PriceFilter(filtered_df, sel.price_range)
    /\ pc' = "price"
    /\ UNCHANGED <<file, cache, df, sel, metrics, cheapest_platforms, trend, calls,
                   notices>>

PlatformStep ==
    /\ pc = "price"
    /\ filtered_df' = PlatformFilter(filtered_df, sel.selected_platforms)
    /\ pc' = "platform"
    /\ UNCHANGED <<file, cache, df, sel, metrics, cheapest_platforms, trend, calls,
                   notices>>

CityStep ==
    /\ pc = "platform"
    /\ filtered_df' = CityFilter(filtered_df, sel.selected_city)
    /\ pc' = "filtered"
    /\ UNCHANGED <<file, cache, df, sel, metrics, cheapest_platforms, trend, calls,
                   notices>>

(***************************************************************************)
(* Aggregation.                                                            *)
(***************************************************************************)
\* num/den rounded to the nearest integer, a half to the even neighbour.
RoundHalfEven(num, den) ==
    LET q == num \div den
        r == num % den
    IN  IF 2 * r < den THEN q
        ELSE IF 2 * r > den THEN q + 1
        ELSE IF q % 2 = 0 THEN q ELSE q + 1

SumPrices(rows) == SumOver([i \in 1..Len(rows) |-> Val(rows[i].price)],
                           1..Len(rows))

\* f"{x:,.0f}" of the mean, the minimum and the maximum: whole rupees.
Format0(num, den) == RoundHalfEven(num, den * Unit)

\* The four headline metrics; of no rows only the count is computed.
MetricsStep ==
    /\ pc = "filtered"
    /\ IF ~IsEmpty(filtered_df)
       THEN /\ metrics' = [count |-> Len(filtered_df.rows),
                           avg |-> Format0(SumPrices(filtered_df.rows),
                                           Len(filtered_df.rows)),
                           low |-> Format0(PriceMin(filtered_df), 1),
                           high |-> Format0(PriceMax(filtered_df), 1)]
            /\ calls' = calls \o <<"mean", "min", "max">>
       ELSE /\ metrics' = [count |-> Len(filtered_df.rows), avg |-> 0,
                           low |-> 0, high |-> 0]
            /\ calls' = calls
    /\ pc' = "metrics"
    /\ UNCHANGED <<file, cache, df, sel, filtered_df, cheapest_platforms, trend, notices>>

\* The platforms of the modelled files, in the order groupby sorts them.
PlatformOrder == <<"Amazon", "Flipkart", "Reliance Digital">>

RowsOf(t, p) == SelectSeq(t.rows, LAMBDA r : r.platform = p)

\* df.groupby('platform'): the keys present, sorted.
GroupKeys(t) ==
    SelectSeq(PlatformOrder, LAMBDA p : \E i \in 1..Len(t.rows) :
                                            t.rows[i].platform = p)

\* .round(2): hundredths of a rupee.
Round2(num, den) == RoundHalfEven(num, den * 10 ^ (FracDigits - 2))

\* avg_price of a group after .round(2)
SortKey(rows) == Round2(SumPrices(rows), Len(rows))

PlatformStats(t, p) ==
    LET rows == RowsOf(t, p)
        g == Table(t.columns, rows)
    IN  [platform |-> p,
         avg_price |-> SortKey(rows),
         min_price |-> Round2(PriceMin(g), 1),
         product_count |-> Len(rows)]

\* sort_values(by): ascending; rows with equal keys keep their order (the
\* insertion sort numpy uses below 17 elements).
RECURSIVE SortValues(_, _)
SortValues(s, by) ==
    IF s = <<>> THEN <<>>
    ELSE LET done == SortValues(SubSeq(s, 1, Len(s) - 1), by)
             x == s[Len(s)]
             n == Cardinality({i \in 1..Len(done) : done[i][by] <= x[by]})
         IN  SubSeq(done, 1, n) \o <<x>> \o SubSeq(done, n + 1, Len(done))

HeadRows(s, n) == SubSeq(s, 1, IF Len(s) < n THEN Len(s) ELSE n)

\* identify_cheapest_platforms(df)
identify_cheapest_platforms(t) ==
    LET keys == GroupKeys(t)
        platform_stats == [i \in 1..Len(keys) |-> PlatformStats(t, keys[i])]
    IN  HeadRows(SortValues(platform_stats, "avg_price"), 2)

(***************************************************************************)
(* The trend view.                                                         *)
(***************************************************************************)
\* dt.month in place of dt.to_period('M'): the year is lost.
ToPeriodMonthOnly(d) == d.m - 1

\* Series.dt.to_period('M'): the months since year 0.
ToPeriod(d) == d.y * 12 + (d.m - 1)

\* Period.to_timestamp(): the first day of the month.
ToTimestamp(q) == Date(q \div 12, (q % 12) + 1, 1)

DaysInMonth2024 == <<31, 29, 31, 30, 31, 30, 31, 31, 30, 31, 30, 31>>

\* pd.date_range(start='2024-01-01', end='2024-12-31', freq='M'): month ends.
sample_dates == [m \in 1..12 |-> Date(2024, m, DaysInMonth2024[m])]

\* Values np.random.randint(40000, 80000, 12) may return.
RandintSamples ==
    { [m \in 1..12 |-> 40000],
      [m \in 1..12 |-> 40000 + ((m * 7919) % 40000)] }

Dated(t) == SelectSeq(t.rows, LAMBDA r : ~r.date.nat)

\* The sorted sequence of a set of integers.
RECURSIVE Ascending(_)
Ascending(S) ==
    IF S = {} THEN <<>>
    ELSE LET x == CHOOSE v \in S : \A w \in S : v <= w
         IN  <<x>> \o Ascending(S \ {x})

\* df.groupby(df['date'].dt.to_period('M'))['price'].mean().reset_index():
\* one row per month, NaT left out; the mean is sum/count.
monthly_prices(t) ==
    LET rows == Dated(t)
        months == Ascending({ToPeriod(rows[i].date) : i \in 1..Len(rows)})
    IN  [k \in 1..Len(months) |->
            LET g == SelectSeq(rows, LAMBDA r : ToPeriod(r.date) = months[k])
            IN  [date |-> ToTimestamp(months[k]),
                 sum |-> SumPrices(g), count |-> Len(g)]]

\* 'date' not in df.columns or df['date'].isna().all()
NoDates(t) ==
    "date" \notin t.columns \/ \A i \in 1..Len(t.rows) : t.rows[i].date.nat

\* The data create_price_trend_chart(df) may plot.
create_price_trend_chart(t) ==
    IF NoDates(t)
    THEN {[title |-> "sample",
           points |-> [m \in 1..12 |-> [date |-> sample_dates[m],
                                        sum |-> v[m] * Unit, count |-> 1]]] :
            v \in RandintSamples}
    ELSE {[title |-> "trend", points |-> monthly_prices(t)]}

\* 'rating' not in df.columns or df['rating'].isna().all()
NoRatings(t) ==
    "rating" \notin t.columns \/ \A i \in 1..Len(t.rows) : IsNaN(t.rows[i].rating)

\* The check left out: main() goes on to the ranking and the charts.
NoReturn(t) == FALSE

\* if filtered_df.empty: the warning and the return.
NoDataReturn(t) == IsEmpty(t)

Builders ==
    <<"identify_cheapest_platforms", "create_price_per_platform_chart",
      "create_price_distribution_chart", "create_price_trend_chart",
      "create_platform_market_share_chart", "create_rating_price_scatter">>

\* main() after the metrics: the warning and the return, or the ranking,
\* the five charts and the table.
ResultStep ==
    /\ pc = "metrics"
    /\ IF NoDataReturn(filtered_df)
       THEN /\ notices' = Append(notices, "warning: No data available")
            /\ pc' = "warned"
            /\ UNCHANGED <<cheapest_platforms, trend, calls>>
       ELSE /\ cheapest_platforms' = identify_cheapest_platforms(filtered_df)
            /\ trend' \in create_price_trend_chart(filtered_df)
            /\ calls' = calls \o Builders
            /\ notices' = IF NoRatings(filtered_df)
                          THEN Append(notices, "warning: Rating data not available")
                          ELSE notices
            /\ pc' = "rendered"
    /\ UNCHANGED <<file, cache, df, sel, filtered_df, metrics>>

\* What one change of one widget can make of the criteria c.
Changes(t, c) ==
    LET lo == min_price(t)
        hi == max_price(t)
    IN  ({[c EXCEPT !.selected_brands = b] : b \in SUBSET Range(Options(t, "brand"))}
         \cup {[c EXCEPT !.selected_platforms = q] :
                  q \in SUBSET Range(Options(t, "platform"))}
         \cup {[c EXCEPT !.selected_city = x] : x \in Range(Options(t, "city"))}
         \cup {[c EXCEPT !.price_range = <<a, b>>] :
                  a \in SliderValues(lo, hi), b \in SliderValues(lo, hi)})
        \ {c}

\* The user changes a widget: the script runs again from the top, the
\* widgets keeping their values.
Interact ==
    /\ pc \in {"warned", "rendered"}
    /\ \E c \in Changes(df, sel) :
          /\ c.price_range[1] <= c.price_range[2]
          /\ sel' = c
    /\ df' = NoTable
    /\ filtered_df' = NoTable
    /\ metrics' = NoMetrics
    /\ cheapest_platforms' = <<>>
    /\ trend' = <<>>
    /\ calls' = <<>>
    /\ notices' = <<>>
    /\ pc' = "start"
    /\ UNCHANGED <<file, cache>>

(***************************************************************************)
(* The files of the dashboard specification.                               *)
(***************************************************************************)
Row(b, pl, c, p, r) ==
    [brand |-> b, platform |-> pl, city |-> c, price |-> p, rating |-> r]

MainColumns == {"brand", "platform", "city", "price", "rating"}

MainRows ==
    { Row("Dell", "Amazon", "Bhopal", <<Rupee, "1", ",", "0", "0", "0">>,
          <<"4", ".", "5">>),
      Row("HP", "Flipkart", "Bhopal", <<Rupee, "3", ",", "0", "0", "0">>,
          <<"n", "/", "a">>),
      Row("Dell", "Flipkart", "Indore", <<"2", "5", "0", "0", ".", "5">>,
          <<"4">>),
      Row("HP", "Amazon", "Indore", <<"N", "/", "A">>, <<>>) }

FilesMain ==
    {NoFile, BlankFile} \cup
    {CsvFile(MainColumns, rows) : rows \in SeqsUpTo(MainRows, MaxRows)}

Init == \E f \in FilesMain : Fresh(f)

Next ==
    \/ LoadStep
    \/ PreprocessStep
    \/ WidgetsStep
    \/ BrandStep
    \/ PriceStep
    \/ PlatformStep
    \/ CityStep
    \/ MetricsStep
    \/ ResultStep
    \/ Interact

Spec == Init /\ [][Next]_vars

(***************************************************************************)
(* The files of the view specification: the first run of main(), with the  *)
(* widgets at their defaults, over files for the ranking (no date column)  *)
(* and files for the trend view (a date column).                           *)
(***************************************************************************)
RankRows ==
    { Row("Dell", "Amazon", "Bhopal", <<"5", "0", "0", "0">>, <<"4">>),
      Row("Dell", "Flipkart", "Bhopal", <<"4", "0", "0", "0">>, <<"4">>),
      Row("Dell", "Reliance Digital", "Bhopal", <<"6", "0", "0", "0">>, <<"4">>),
      Row("Dell", "Amazon", "Bhopal",
          <<"1", "0", "0", "0", ".", "0", "0", "4">>, <<"4">>),
      Row("Dell", "Flipkart", "Bhopal",
          <<"1", "0", "0", "0", ".", "0", "0", "1">>, <<"4">>),
      Row("Dell", "Amazon", "Bhopal", <<"4", "0", "0", "0">>, <<>>) }

DatedRow(p, d) ==
    [brand |-> "Dell", platform |-> "Amazon", city |-> "Bhopal", price |-> p,
     rating |-> <<"4">>, date |-> d]

TrendRows ==
    { DatedRow(<<Rupee, "1", ",", "0", "0", "0">>,
               <<"2", "0", "2", "4", "-", "0", "1", "-", "1", "5">>),
      DatedRow(<<Rupee, "3", ",", "0", "0", "0">>,
               <<"2", "0", "2", "4", "-", "0", "1", "-", "2", "0">>),
      DatedRow(<<Rupee, "1", ",", "0", "0", "0">>,
               <<"2", "0", "2", "4", "-", "0", "2", "-", "0", "3">>),
      DatedRow(<<Rupee, "3", ",", "0", "0", "0">>,
               <<"2", "0", "2", "5", "-", "0", "1", "-", "1", "0">>),
      DatedRow(<<Rupee, "2", ",", "0", "0", "0">>, <<"n", "/", "a">>),
      DatedRow(<<Rupee, "2", ",", "0", "0", "0">>, <<>>) }

FilesView ==
    {CsvFile(MainColumns, rows) : rows \in SeqsUpTo(RankRows, MaxViewRows)}
    \cup
    {CsvFile(MainColumns \cup {"date"}, rows) :
        rows \in SeqsUpTo(TrendRows, MaxViewRows)}

InitView == \E f \in FilesView : Fresh(f)

NextView ==
    \/ LoadStep
    \/ PreprocessStep
    \/ WidgetsStep
    \/ BrandStep
    \/ PriceStep
    \/ PlatformStep
    \/ CityStep
    \/ MetricsStep
    \/ ResultStep

SpecView == InitView /\ [][NextView]_vars

(***************************************************************************)
(* The files of the preprocessing specification: every table of up to      *)
(* MaxRows sample rows, and every one-row table whose price is a string of *)
(* up to MaxLen characters of the alphabet.                                *)
(***************************************************************************)
Alphabet == {Rupee, Comma, ".", "-", "x", "1", "2"}
PriceStrings == SeqsUpTo(Alphabet, MaxLen)

PriceSamples ==
    { <<Rupee, "1", ",", "2", "3", ",", "4", "5", "6">>,
      <<Rupee, " ", "1", ",", "0", "0", "0">>,
      <<"2", "5", "0", "0", ".", "5">>,
      <<"N", "/", "A">>,
      <<"-", "5", "0", "0">>,
      <<>> }

RatingSamples == { <<"4", ".", "5">>, <<"n", "/", "a">>, <<>> }

PreRow(p, r) ==
    [brand |-> "Dell", platform |-> "Amazon", city |-> "Bhopal",
     price |-> p, rating |-> r]

PreColumns == {"brand", "platform", "city", "price", "rating"}

FilesPre ==
    {NoFile} \cup
    {CsvFile(PreColumns, rows) :
        rows \in SeqsUpTo({PreRow(p, r) : p \in PriceSamples,
                                          r \in RatingSamples}, MaxRows)}
    \cup
    {CsvFile(PreColumns, <<PreRow(p, r)>>) :
        p \in PriceStrings, r \in RatingSamples}

InitPre == \E f \in FilesPre : Fresh(f)
NextPre == LoadStep \/ PreprocessStep
SpecPre == InitPre /\ [][NextPre]_vars

(***************************************************************************)
(* What the preprocessing is to do, stated without the scanner.            *)
(***************************************************************************)
RECURSIVE WithoutDecoration(_)
WithoutDecoration(s) ==
    IF s = <<>> THEN <<>>
    ELSE IF Head(s) = Rupee \/ Head(s) = Comma THEN WithoutDecoration(Tail(s))
    ELSE <<Head(s)>> \o WithoutDecoration(Tail(s))

\* The blanks around a numeral removed, and its sign.
Core(t) ==
    LET lead == {a \in 0..Len(t) : \A i \in 1..a : t[i] = " "}
        trail == {z \in 0..Len(t) : \A i \in (Len(t) - z + 1)..Len(t) : t[i] = " "}
        a == CHOOSE x \in lead : \A y \in lead : y <= x
        z == CHOOSE x \in trail : \A y \in trail : y <= x
    IN  IF a + z >= Len(t) THEN <<>> ELSE SubSeq(t, a + 1, Len(t) - z)

Signed(t) == Core(t) # <<>> /\ Core(t)[1] \in {"-", "+"}
Body(t) == IF Signed(t) THEN Tail(Core(t)) ELSE Core(t)

\* A decimal numeral: digits with at most one point, at least one digit.
IsNumeral(t) ==
    LET b == Body(t)
    IN  /\ \A i \in 1..Len(b) : b[i] \in Digits \cup {"."}
        /\ Cardinality({i \in 1..Len(b) : b[i] = "."}) <= 1
        /\ \E i \in 1..Len(b) : b[i] \in Digits

\* The number a numeral denotes, in units of 10^-FracDigits.
NumeralValue(t) ==
    LET b == Body(t)
        pts == {i \in 1..Len(b) : b[i] = "."}
        p == IF pts = {} THEN Len(b) + 1 ELSE CHOOSE i \in pts : TRUE
        w == [i \in 1..Len(b) |->
                IF i < p THEN DigitVal(b[i]) * 10 ^ (p - 1 - i) * Unit
                ELSE IF i > p THEN DigitVal(b[i]) * 10 ^ (FracDigits - (i - p))
                ELSE 0]
        m == SumOver(w, 1..Len(b))
    IN  IF Core(t)[1] = "-" THEN 0 - m ELSE m

PriceParses(raw) == IsNumeral(WithoutDecoration(raw.price))
RatingParses(raw) == IsNumeral(raw.rating)

\* The positions of the input rows whose price parses, in order.
KeptRows(rows) ==
    SelectSeq([i \in 1..Len(rows) |-> i], LAMBDA i : PriceParses(rows[i]))

LakhSample == <<Rupee, "1", ",", "2", "3", ",", "4", "5", "6">>

Preprocessed == pc = "preprocessed" /\ file.state = "present"

\* C2: every row that preprocess_data retains has a numeric price that is
\* not negative.
C2_PriceNonNegative ==
    Preprocessed =>
        \A k \in 1..Len(df.rows) :
            ~IsNaN(df.rows[k].price) /\ Val(df.rows[k].price) >= 0

\* C7: preprocess_data keeps exactly the rows whose price, the rupee sign
\* and the commas removed, is a numeral, in their order and with the
\* numeral's value as price ("₹1,23,456" becomes 123456); the row count
\* falls by the number of rows whose price is no numeral, and a rating that
\* is no numeral becomes NaN without dropping the row.
C7_PreprocessKeepsParsable ==
    Preprocessed =>
        LET in == file.rows
            kept == KeptRows(in)
            bad == {i \in 1..Len(in) : ~PriceParses(in[i])}
        IN  /\ Len(df.rows) = Len(in) - Cardinality(bad)
            /\ Len(df.rows) = Len(kept)
            /\ \A k \in 1..Len(kept) :
                  LET raw == in[kept[k]]
                      out == df.rows[k]
                  IN  /\ out.brand = raw.brand
                      /\ out.platform = raw.platform
                      /\ out.city = raw.city
                      /\ out.price = Num(NumeralValue(WithoutDecoration(raw.price)))
                      /\ IsNaN(out.rating) <=> ~RatingParses(raw)
                      /\ raw.price = LakhSample => out.price = Num(123456 * Unit)

\* A run that dropped a row, and kept the row "₹1,23,456" whose rating is
\* no number.
C7_Witness ==
    /\ Preprocessed
    /\ Len(df.rows) < Len(file.rows)
    /\ \E k \in 1..Len(df.rows) :
          /\ df.rows[k].price = Num(123456 * Unit)
          /\ IsNaN(df.rows[k].rating)
    /\ \E i \in 1..Len(file.rows) :
          /\ file.rows[i].price = LakhSample
          /\ file.rows[i].rating = <<"n", "/", "a">>

(***************************************************************************)
(* The dashboard's claims.                                                 *)
(***************************************************************************)
\* The four predicates of the criteria c on a row.
BrandOk(r, c) == All \in c.selected_brands \/ r.brand \in c.selected_brands
PriceOk(r, c) == c.price_range[1] * Unit <= Val(r.price) /\ Val(r.price) <= c.price_range[2] * Unit
PlatformOk(r, c) == All \in c.selected_platforms \/ r.platform \in c.selected_platforms
CityOk(r, c) == c.selected_city = All \/ r.city = c.selected_city
Satisfies(r, c) == BrandOk(r, c) /\ PriceOk(r, c) /\ PlatformOk(r, c) /\ CityOk(r, c)

AllSentinel(c) == All \in c.selected_brands /\ All \in c.selected_platforms /\ c.selected_city = All
FullRange(t, c) == c.price_range = <<min_price(t), max_price(t)>>

\* C1: with 'All' for brands, platforms and city and the slider at
\* (int(min), int(max)), the filtered result is the preprocessed dataset.
C1_AllSentinelIdentity ==
    (pc = "filtered" /\ AllSentinel(sel) /\ FullRange(df, sel))
        => filtered_df.rows = df.rows

Ended == pc \in {"stopped", "crashed", "warned", "rendered"}

\* C3: every run of main() ends in a halt with a message, in the 'no data'
\* warning or in the full render, never in an unhandled exception.
C3_NothingFatal ==
    Ended => \/ pc = "stopped" /\ notices # <<>>
             \/ pc = "warned"
             \/ pc = "rendered"

\* One of the four filters of main().
Phase(k, t, c) ==
    CASE k = 1 -> BrandFilter(t, c.selected_brands)
      [] k = 2 -> PriceFilter(t, c.price_range)
      [] k = 3 -> PlatformFilter(t, c.selected_platforms)
      [] k = 4 -> CityFilter(t, c.selected_city)

InOrder(o, t, c) == Phase(o[4], Phase(o[3], Phase(o[2], Phase(o[1], t, c), c), c), c)

Orders == {o \in [1..4 -> 1..4] : \A i, j \in 1..4 : o[i] = o[j] => i = j}

\* C4: the filtered result is the rows that satisfy all four predicates;
\* every order of the four filters gives it, and filtering it again with
\* the same criteria leaves it as it is.
C4_FiltersConjunctive ==
    pc = "filtered" =>
        /\ filtered_df.rows = SelectSeq(df.rows, LAMBDA r : Satisfies(r, sel))
        /\ \A o \in Orders : InOrder(o, df, sel) = filtered_df
        /\ \A o \in Orders : InOrder(o, filtered_df, sel) = filtered_df

\* All four filters restrict, and the result is a proper, non-empty part of
\* the dataset.
C4_Witness ==
    /\ pc = "filtered"
    /\ All \notin sel.selected_brands /\ All \notin sel.selected_platforms /\ sel.selected_city # All
    /\ ~FullRange(df, sel)
    /\ 0 < Len(filtered_df.rows) /\ Len(filtered_df.rows) < Len(df.rows)

\* C6: of an empty filtered result main() shows the count 0 and the warning
\* and returns: no mean, minimum or maximum is computed and neither
\* identify_cheapest_platforms nor a chart builder is called.
C6_EmptySkipsAggregation ==
    (pc \in {"metrics", "warned", "rendered"} /\ Len(filtered_df.rows) = 0) =>
        /\ calls = <<>>
        /\ metrics = [count |-> 0, avg |-> 0, low |-> 0, high |-> 0]
        /\ cheapest_platforms = <<>> /\ trend = <<>>
        /\ pc # "rendered"
        /\ pc = "warned" => notices = <<"warning: No data available">>

C6_Witness ==
    /\ pc = "warned"
    /\ Len(df.rows) > 0
    /\ Len(filtered_df.rows) = 0
    /\ metrics.count = 0

\* C8: whatever was selected before, the table held in the cache is the
\* file as read, and the filtered result is the rows of the preprocessed
\* file that satisfy the criteria of this run.
C8_SourceUnchanged ==
    /\ (cache.cached /\ file.state = "present") => cache.value = ReadCsv(file)
    /\ pc \in {"filtered", "metrics", "warned", "rendered"} =>
          filtered_df.rows = SelectSeq(preprocess_data(ReadCsv(file)).rows,
                                    LAMBDA r : Satisfies(r, sel))

\* A run after at least two changes of the widgets, whose result is a
\* proper part of the dataset.
C8_Witness ==
    /\ pc = "rendered"
    /\ sel.selected_brands # {All} /\ sel.selected_platforms # {All}
    /\ Len(filtered_df.rows) < Len(df.rows)
    /\ cache.value = ReadCsv(file)

\* C10: the brand filter and the platform filter change nothing when the
\* selection holds 'All', alone or beside other values, and otherwise, an
\* empty selection included, keep exactly the rows whose value is selected.
C10_SentinelNoOp ==
    [][/\ (pc = "widgets" /\ pc' = "brand") =>
             filtered_df'.rows =
                IF All \in sel.selected_brands THEN df.rows
                ELSE SelectSeq(df.rows, LAMBDA r : r.brand \in sel.selected_brands)
       /\ (pc = "price" /\ pc' = "platform") =>
             filtered_df'.rows =
                IF All \in sel.selected_platforms THEN filtered_df.rows
                ELSE SelectSeq(filtered_df.rows,
                               LAMBDA r : r.platform \in sel.selected_platforms)]_vars

\* 'All' selected beside a brand that not every row has, and an empty
\* platform selection, in one run.
C10_Witness ==
    /\ pc = "platform"
    /\ All \in sel.selected_brands /\ sel.selected_brands # {All}
    /\ \E i \in 1..Len(df.rows) : df.rows[i].brand \notin sel.selected_brands
    /\ sel.selected_platforms = {}
    /\ Len(df.rows) > 0 /\ Len(filtered_df.rows) = 0

(***************************************************************************)
(* The claims on the ranking and the trend view.                           *)
(***************************************************************************)
PlatformsOf(t) == {t.rows[i].platform : i \in 1..Len(t.rows)}
SumOf(t, p) == SumPrices(RowsOf(t, p))
CountOf(t, p) == Len(RowsOf(t, p))

\* mean(p) <= mean(q), without the division.
MeanLeq(t, p, q) == SumOf(t, p) * CountOf(t, q) <= SumOf(t, q) * CountOf(t, p)

\* C5: of a filtered table with at least two platforms whose mean prices
\* differ, identify_cheapest_platforms returns the platform with the lowest
\* mean price first and the one with the second-lowest mean price second.
C5_CheapestFirst ==
    (/\ pc = "rendered"
     /\ \E p, q \in PlatformsOf(filtered_df) : ~MeanLeq(filtered_df, p, q))
        => /\ Len(cheapest_platforms) = 2
           /\ \A q \in PlatformsOf(filtered_df) :
                 MeanLeq(filtered_df, cheapest_platforms[1].platform, q)
           /\ \A q \in PlatformsOf(filtered_df) \ {cheapest_platforms[1].platform} :
                 MeanLeq(filtered_df, cheapest_platforms[2].platform, q)

Before(d, e) == d.y < e.y \/ (d.y = e.y /\ d.m < e.m)
SameMonth(d, e) == d.y = e.y /\ d.m = e.m

\* The positions of the rows of t dated in the month of d.
InMonth(t, d) ==
    {i \in 1..Len(t.rows) : ~t.rows[i].date.nat /\ SameMonth(t.rows[i].date, d)}

HasValidDate(t) ==
    "date" \in t.columns /\ \E i \in 1..Len(t.rows) : ~t.rows[i].date.nat

\* C9: of a table with a valid date the trend view has one point per
\* calendar month that has a dated row, in chronological order, each the
\* mean price of the month's rows; of a table without a date column or
\* without a valid date it is the sample series over the twelve months of
\* 2024.
C9_TrendMonthly ==
    pc = "rendered" =>
        IF HasValidDate(filtered_df)
        THEN LET pts == trend.points
             IN  /\ trend.title = "trend"
                 /\ \A i \in 1..Len(filtered_df.rows) :
                       ~filtered_df.rows[i].date.nat =>
                           \E k \in 1..Len(pts) :
                               SameMonth(pts[k].date, filtered_df.rows[i].date)
                 /\ \A k \in 1..Len(pts) :
                       LET G == InMonth(filtered_df, pts[k].date)
                           total == SumOver([i \in 1..Len(filtered_df.rows) |->
                                               Val(filtered_df.rows[i].price)], G)
                       IN  /\ G # {}
                           /\ pts[k].date.d = 1
                           /\ pts[k].sum * Cardinality(G) = total * pts[k].count
                           /\ pts[k].count > 0
                 /\ \A k, l \in 1..Len(pts) :
                       k < l => Before(pts[k].date, pts[l].date)
        ELSE /\ trend.title = "sample"
             /\ Len(trend.points) = 12
             /\ \A m \in 1..12 :
                   /\ trend.points[m].date.y = 2024
                   /\ trend.points[m].date.m = m
                   /\ trend.points[m].count = 1
                   /\ trend.points[m].sum \in (40000 * Unit)..(79999 * Unit)

\* Three points of four dated rows: January 2024 with two rows and the mean
\* 2000, February 2024 and January 2025.
C9_Witness ==
    /\ pc = "rendered"
    /\ Len(filtered_df.rows) = 4
    /\ Len(trend.points) = 3
    /\ trend.points[1] = [date |-> Date(2024, 1, 1), sum |-> 4000 * Unit, count |-> 2]
    /\ trend.points[2].date = Date(2024, 2, 1)
    /\ trend.points[3].date = Date(2025, 1, 1)

====
